---- MODULE Spec2Model ----
(***************************************************************************)
(* Request-lifecycle model of the Classy Weather App component             *)
(* (src/src/App.js).  The file holds two near-duplicate versions of App:   *)
(* lines 36-145 (with the LocalWeather button, persist-first effect) and   *)
(* lines 335-435 (no LocalWeather, persist after the fetch is started).    *)
(* `version` selects which one is mounted.                                 *)
(*                                                                         *)
(* Scheduling: one JavaScript thread.  An effect run (cleanup of the old   *)
(* effect + body of the new one, up to the first await) is one step; each  *)
(* await continuation is one step.  abort() rejects the pending promise    *)
(* synchronously, so the aborted chain's catch/finally is a microtask that *)
(* runs before any other task: MicroPending gives it priority.             *)
(***************************************************************************)
EXTENDS Integers, Sequences, FiniteSets, TLC

VARIABLES
    version,          \* 1: App of lines 36-145, 2: App of lines 335-435
    pc,               \* "initial" | "restoring" | "running"
    mounted,          \* App is mounted
    search,           \* useState search
    restored,         \* setSearch value queued by the restore effect, until rendered
    storage,          \* localStorage item "location" (NoItem when absent)
    displayLocation,  \* useState displayLocation: 0 = "", n = name resolved by chain n
    isLoading,        \* useState isLoading (App)
    weather,          \* useState weather: 0 = {}, n = daily forecast fetched by chain n
    error,            \* useState error
    chains,           \* the async functions in flight, by chain id
    nChains,          \* number of chains started so far
    cleanup,          \* chain whose controllers the effect's cleanup aborts; 0 = none
    lwIsLoading,      \* LocalWeather useState isLoading
    geoIsLoading,     \* useGeolocation isLoading
    geoPending,       \* browser position request outstanding for the mounted LocalWeather
    position,         \* useGeolocation position <<lat, lng>>
    last              \* the step just taken: operation, its input, the chain that ran,
                      \* the setters it called and the requests it issued

vars == <<version, pc, mounted, search, restored, storage, displayLocation,
          isLoading, weather, error, chains, nChains, cleanup,
          lwIsLoading, geoIsLoading, geoPending, position, last>>

----------------------------------------------------------------------------
(* Bounds *)

MaxChains == 3
ChainIds == 1..MaxChains

\* query strings, as sequences of characters: empty, one character, two
\* blanks, and two different strings of length 2
Queries == {<<>>, <<"a">>, <<" ", " ">>, <<"a", "a">>, <<"a", "b">>}
NoItem == <<"null">>
Undefined == -1
Coords == {0, 1}

----------------------------------------------------------------------------
(* Error messages *)

MsgGeoFailed == "Something went wrong with fetching geolocation"
MsgNotFound == "Location not found"
MsgWeatherFailed == "Something went wrong with fetching weather"
MsgTimezoneFailed == "Something went wrong with fetching the current timezone"
MsgNameFailed == "Something went wrong with fetching the current location data"
MsgNetwork == "Failed to fetch"
MsgParse == "Unexpected token in JSON"
MsgDestructure == "Cannot destructure property 'latitude' of undefined"

----------------------------------------------------------------------------
(* Pure helpers *)

\* String.prototype.trim on a sequence of characters
RECURSIVE TrimStart(_)
TrimStart(s) ==
    IF s # <<>> /\ Head(s) = " " THEN TrimStart(Tail(s)) ELSE s

RECURSIVE TrimEnd(_)
TrimEnd(s) ==
    IF s # <<>> /\ s[Len(s)] = " " THEN TrimEnd(SubSeq(s, 1, Len(s) - 1)) ELSE s

Trim(s) == TrimEnd(TrimStart(s))

DefinedOnly(x) == x # Undefined
Truthy(x) == x # Undefined /\ x # 0

\* localStorage.getItem("location") || ""
GetItemWrongKey(st) == <<>>
GetItemOrEmpty(st) == IF st = NoItem THEN <<>> ELSE st

\* the test the specification words: trim(query).length < 2
IsShortTrimmed(q) == Len(Trim(q)) < 2

\* if (search.length < 2)
IsShort(q) == Len(q) < 2

\* position of localStorage.setItem relative to the guard and the fetch
PersistFirst(v) == v = 1

\* if (err.name !== "AbortError") setError(err.message)
CatchSetsErrorAlways(name) == TRUE
CatchSetsError(name) == name # "AbortError"

\* if (!geoData.results)
ResultsMissing(body) == body = "absent"

----------------------------------------------------------------------------
(* Render *)

LoaderIgnoresError == mounted /\ isLoading
LoaderVisible == mounted /\ isLoading /\ error = ""
ErrorVisible == mounted /\ error # ""
LWVis(v, m, l, e, w) == v = 1 /\ m /\ ~l /\ e = "" /\ w = 0
LocalWeatherVisible == LWVis(version, mounted, isLoading, error, weather)
WeatherListIgnoresError == mounted /\ weather # 0 /\ ~isLoading
WeatherListVisible == mounted /\ weather # 0 /\ error = "" /\ ~isLoading

----------------------------------------------------------------------------
(* Chains *)

\* a chain that was never started or has run to its end
NoChain ==
    [kind |-> "none", pc |-> "done", geoAborted |-> FALSE,
     weatherAborted |-> FALSE, cancelled |-> FALSE, geoStatus |-> "none",
     alive |-> FALSE, overtaken |-> FALSE, persistedAtFetch |-> TRUE,
     prevAborted |-> TRUE]

SearchChains(chs) == {c \in ChainIds : chs[c].kind = "search"}
LocalChains(chs) == {c \in ChainIds : chs[c].kind = "local"}

\* the await the chain is suspended at is bound to an aborted signal
AbortPending(r) ==
    /\ r.kind = "search"
    /\ \/ r.pc \in {"geoFetch", "geoJson"} /\ r.geoAborted
       \/ r.pc \in {"wFetch", "wJson"} /\ r.weatherAborted

MicroPending == \E c \in ChainIds : AbortPending(chains[c])

\* return function () { geoController.abort(); weatherController.abort(); }
AbortGeoOnly(r) == [r EXCEPT !.geoAborted = TRUE, !.cancelled = TRUE]
AbortNeither(r) == [r EXCEPT !.cancelled = TRUE]
AbortBoth(r) ==
    [r EXCEPT !.geoAborted = TRUE, !.weatherAborted = TRUE, !.cancelled = TRUE]

\* React runs the cleanup the last effect run returned, if it returned one;
\* aborting the controllers of a chain that has ended changes nothing
RunCleanup(chs, cl) ==
    IF cl = 0 \/ chs[cl].kind = "none" THEN chs
    ELSE [chs EXCEPT ![cl] = AbortBoth(@)]

\* LocalWeather unmounts: its state is dropped, its chains keep running
KillLocal(chs, vis) ==
    [c \in ChainIds |->
        IF chs[c].kind = "local" /\ ~vis THEN [chs[c] EXCEPT !.alive = FALSE]
        ELSE chs[c]]

\* a valid search text is typed while a current-location chain is in flight
Overtake(chs, q) ==
    [c \in ChainIds |->
        IF chs[c].kind = "local" /\ Len(q) >= 2
        THEN [chs[c] EXCEPT !.overtaken = TRUE]
        ELSE chs[c]]

Step(op, in, by, fields, issued, rec) ==
    [op |-> op, in |-> in, by |-> by, fields |-> fields, issued |-> issued,
     chain |-> rec]

\* a setter of App called after App unmounted changes nothing
Set(old, new) == IF mounted THEN new ELSE old

----------------------------------------------------------------------------
Init ==
    /\ version \in {1, 2}
    /\ pc = "initial"
    /\ mounted = FALSE
    /\ search = <<>>
    /\ restored = <<>>
    /\ storage \in Queries \cup {NoItem}
    /\ displayLocation = 0
    /\ isLoading = FALSE
    /\ weather = 0
    /\ error = ""
    /\ chains = [c \in ChainIds |-> NoChain]
    /\ nChains = 0
    /\ cleanup = 0
    /\ lwIsLoading = FALSE
    /\ geoIsLoading = FALSE
    /\ geoPending = FALSE
    /\ position = <<Undefined, Undefined>>
    /\ last = Step("Init", "", 0, {}, {}, NoChain)

\* LocalWeather's own state after a step that left it with the values l, g, p, pos
LocalState(l, g, p, pos) ==
    LET vis == LWVis(version, mounted', isLoading', error', weather') IN
    /\ lwIsLoading' = (vis /\ l)
    /\ geoIsLoading' = (vis /\ g)
    /\ geoPending' = (vis /\ p)
    /\ position' = IF vis THEN pos ELSE <<Undefined, Undefined>>

LocalKept == LocalState(lwIsLoading, geoIsLoading, geoPending, position)

\* the body of the [search] effect for the value q, after the old cleanup ran
SearchEffect(op, q, chs) ==
    /\ storage' = IF PersistFirst(version) \/ ~IsShort(q) THEN q ELSE storage
    /\ IF IsShort(q)
       THEN /\ error' = ""
            /\ weather' = 0
            /\ UNCHANGED <<isLoading, displayLocation, nChains>>
            /\ cleanup' = 0
            /\ chains' = KillLocal(chs,
                   LWVis(version, mounted', isLoading', error', weather'))
            /\ last' = Step(op, "short", 0, {"error", "weather"}, {}, NoChain)
       ELSE /\ nChains < MaxChains
            /\ LET id == nChains + 1
                   r == [NoChain EXCEPT
                           !.kind = "search", !.pc = "geoFetch",
                           !.geoStatus = "pending",
                           !.persistedAtFetch =
                               (IF PersistFirst(version) THEN q ELSE storage) = q,
                           !.prevAborted =
                               \A c \in SearchChains(chs) :
                                   chs[c].geoAborted /\ chs[c].weatherAborted]
               IN  /\ error' = ""
                   /\ isLoading' = TRUE
                   /\ UNCHANGED <<weather, displayLocation>>
                   /\ nChains' = id
                   /\ cleanup' = id
                   /\ chains' = KillLocal([chs EXCEPT ![id] = r],
                          LWVis(version, mounted', isLoading', error', weather'))
                   /\ last' = Step(op, "valid", id, {"error", "isLoading"},
                                   {"geo"}, r)

\* first commit: the restore effect, then the [search] effect with search = ""
Mount ==
    /\ pc = "initial"
    /\ mounted' = TRUE
    /\ restored' = GetItemOrEmpty(storage)
    /\ search' = search
    /\ SearchEffect("Mount", search, chains)
    /\ pc' = IF restored' = search THEN "running" ELSE "restoring"
    /\ LocalKept
    /\ UNCHANGED version

\* re-render with the restored search value; the [search] effect runs again
RestoreCommit ==
    /\ pc = "restoring"
    /\ UNCHANGED <<version, mounted>>
    /\ restored' = <<>>
    /\ search' = restored
    /\ SearchEffect("RestoreCommit", restored, RunCleanup(chains, cleanup))
    /\ pc' = "running"
    /\ LocalKept

\* onChange={(e) => onSearch(e.target.value)}: re-render, old cleanup, new effect
SetSearch(q) ==
    /\ pc = "running"
    /\ mounted
    /\ ~MicroPending
    /\ q # search
    /\ UNCHANGED <<version, mounted, restored, pc>>
    /\ search' = q
    /\ SearchEffect("SetSearch", q, Overtake(RunCleanup(chains, cleanup), q))
    /\ LocalKept

\* App unmounts: the effect's cleanup runs, nothing is rendered any more
Unmount ==
    /\ pc = "running"
    /\ mounted
    /\ ~MicroPending
    /\ mounted' = FALSE
    /\ chains' = KillLocal(RunCleanup(chains, cleanup), FALSE)
    /\ cleanup' = 0
    /\ last' = Step("Unmount", "", 0, {}, {}, NoChain)
    /\ UNCHANGED <<version, pc, search, restored, storage, displayLocation,
                   isLoading, weather, error, nChains>>
    /\ LocalKept

----------------------------------------------------------------------------
(* fetchWeatherData: the text-search chain *)

FlagKeptOnThrow(cur) == cur

\* finally { setIsLoading(false) }: the value the flag takes when the chain threw
FinallyIsLoading(cur) == FALSE

\* catch (err) { if (err.name !== "AbortError") setError(err.message) }
\* finally { setIsLoading(false) }
SearchThrow(op, in, c, name, msg) ==
    /\ error' = IF CatchSetsError(name) THEN Set(error, msg) ELSE error
    /\ isLoading' = Set(isLoading, FinallyIsLoading(isLoading))
    /\ UNCHANGED <<weather, displayLocation>>
    /\ chains' = KillLocal([chains EXCEPT ![c] = NoChain],
           LWVis(version, mounted', isLoading', error', weather'))
    /\ last' = Step(op, in, c,
                    IF CatchSetsError(name) THEN {"error", "isLoading"}
                    ELSE {"isLoading"},
                    {}, chains[c])

ChainFrame ==
    UNCHANGED <<version, pc, mounted, search, restored, storage, nChains, cleanup>>

\* the await of an aborted chain rejects with AbortError
AbortDelivered(c) ==
    /\ AbortPending(chains[c])
    /\ ChainFrame
    /\ SearchThrow("AbortDelivered", "abort", c, "AbortError", "aborted")
    /\ LocalKept

\* if (!res.ok) throw new Error(...)
ResponseNeverFails(out) == FALSE
ResponseFails(out) == out = "notOk"

\* const geoRes = await fetch(...search?name=..., { signal: geoController.signal })
GeoResponse(c, out) ==
    /\ ~MicroPending
    /\ chains[c].kind = "search"
    /\ chains[c].pc = "geoFetch"
    /\ ChainFrame
    /\ CASE out = "reject" ->
              SearchThrow("GeoResponse", out, c, "TypeError", MsgNetwork)
         [] ResponseFails(out) ->
              SearchThrow("GeoResponse", out, c, "Error", MsgGeoFailed)
         [] OTHER ->
              /\ chains' = [chains EXCEPT ![c].pc = "geoJson",
                                          ![c].geoStatus = out]
              /\ last' = Step("GeoResponse", out, c, {}, {}, chains[c])
              /\ UNCHANGED <<error, isLoading, weather, displayLocation>>
    /\ LocalKept

\* a fetch whose signal is already aborted rejects without a request going out
FetchGoesOut(aborted) == ~aborted

\* const geoData = await geoRes.json(); ... setDisplayLocation; fetch forecast
GeoBody(c, body) ==
    /\ ~MicroPending
    /\ chains[c].kind = "search"
    /\ chains[c].pc = "geoJson"
    /\ ChainFrame
    /\ CASE body = "reject" ->
              SearchThrow("GeoBody", body, c, "SyntaxError", MsgParse)
         [] ResultsMissing(body) ->
              SearchThrow("GeoBody", body, c, "Error", MsgNotFound)
         [] body = "empty" ->
              SearchThrow("GeoBody", body, c, "TypeError", MsgDestructure)
         [] OTHER ->
              /\ displayLocation' = Set(displayLocation, c)
              /\ chains' = [chains EXCEPT ![c].pc = "wFetch"]
              /\ last' = Step("GeoBody", body, c, {"displayLocation"},
                              IF FetchGoesOut(chains[c].weatherAborted)
                              THEN {"forecast"} ELSE {},
                              chains[c])
              /\ UNCHANGED <<error, isLoading, weather>>
    /\ LocalKept

\* const weatherRes = await fetch(...forecast..., { signal: weatherController.signal })
WeatherResponse(c, out) ==
    /\ ~MicroPending
    /\ chains[c].kind = "search"
    /\ chains[c].pc = "wFetch"
    /\ ChainFrame
    /\ CASE out = "reject" ->
              SearchThrow("WeatherResponse", out, c, "TypeError", MsgNetwork)
         [] ResponseFails(out) ->
              SearchThrow("WeatherResponse", out, c, "Error", MsgWeatherFailed)
         [] OTHER ->
              /\ chains' = [chains EXCEPT ![c].pc = "wJson"]
              /\ last' = Step("WeatherResponse", out, c, {}, {}, chains[c])
              /\ UNCHANGED <<error, isLoading, weather, displayLocation>>
    /\ LocalKept

\* const weatherData = await weatherRes.json(); setWeather(weatherData.daily)
WeatherBody(c, body) ==
    /\ ~MicroPending
    /\ chains[c].kind = "search"
    /\ chains[c].pc = "wJson"
    /\ ChainFrame
    /\ CASE body = "reject" ->
              SearchThrow("WeatherBody", body, c, "SyntaxError", MsgParse)
         [] OTHER ->
              /\ weather' = Set(weather, c)
              /\ isLoading' = Set(isLoading, FALSE)
              /\ chains' = KillLocal([chains EXCEPT ![c] = NoChain],
                     LWVis(version, mounted', isLoading', error, weather'))
              /\ last' = Step("WeatherBody", body, c, {"weather", "isLoading"},
                              {}, chains[c])
              /\ UNCHANGED <<error, displayLocation>>
    /\ LocalKept

----------------------------------------------------------------------------
(* LocalWeather: the button, useGeolocation and getCurrentPosition *)

\* onClick={getLocation}, disabled={isLoading || isLoadingGeo}
ClickLocation ==
    /\ pc = "running"
    /\ ~MicroPending
    /\ LocalWeatherVisible
    /\ ~(lwIsLoading \/ geoIsLoading)
    /\ geoIsLoading' = TRUE
    /\ geoPending' = TRUE
    /\ last' = Step("ClickLocation", "", 0, {}, {}, NoChain)
    /\ UNCHANGED <<version, pc, mounted, search, restored, storage,
                   displayLocation, isLoading, weather, error, chains, nChains,
                   cleanup, lwIsLoading, position>>

\* the [lat, lng] effect runs when either changed; if (!lat || !lng) return
StartsLocalChain(la, ln) ==
    /\ <<la, ln>> # position
    /\ Truthy(la)
    /\ Truthy(ln)

\* the browser reports a position: setPosition, then getCurrentPosition
PositionSuccess(la, ln) ==
    /\ ~MicroPending
    /\ geoPending
    /\ UNCHANGED <<version, pc, mounted, search, restored, storage,
                   displayLocation, isLoading, weather, cleanup>>
    /\ IF StartsLocalChain(la, ln)
       THEN /\ nChains < MaxChains
            /\ LET id == nChains + 1
                   r == [NoChain EXCEPT !.kind = "local", !.pc = "tzFetch",
                                        !.alive = TRUE]
               IN  /\ error' = Set(error, "")
                   /\ nChains' = id
                   /\ chains' = [chains EXCEPT ![id] = r]
                   /\ last' = Step("PositionSuccess", "start", id,
                                   {"error", "lwIsLoading"}, {"tz"}, r)
            /\ LocalState(TRUE, FALSE, FALSE, <<la, ln>>)
       ELSE /\ UNCHANGED <<error, nChains, chains>>
            /\ last' = Step("PositionSuccess", "skip", 0, {}, {}, NoChain)
            /\ LocalState(lwIsLoading, FALSE, FALSE, <<la, ln>>)

\* the browser refuses or fails the position request
PositionError ==
    /\ ~MicroPending
    /\ geoPending
    /\ UNCHANGED <<version, pc, mounted, search, restored, storage,
                   displayLocation, isLoading, weather, error, chains, nChains,
                   cleanup>>
    /\ last' = Step("PositionError", "", 0, {}, {}, NoChain)
    /\ LocalState(lwIsLoading, FALSE, FALSE, position)

\* catch (err) { setError(err.message) } finally { setIsLoading(false) }
LocalThrow(op, in, c, msg) ==
    /\ error' = Set(error, msg)
    /\ UNCHANGED <<isLoading, weather, displayLocation>>
    /\ chains' = KillLocal([chains EXCEPT ![c] = NoChain],
           LWVis(version, mounted', isLoading', error', weather'))
    /\ last' = Step(op, in, c, {"error", "lwIsLoading"}, {}, chains[c])
    /\ LocalState(lwIsLoading /\ ~chains[c].alive, geoIsLoading, geoPending,
                  position)

\* an awaited fetch of the chain settles: !res.ok throws msg
LocalResponse(op, c, at, out, msg, to) ==
    /\ ~MicroPending
    /\ chains[c].kind = "local"
    /\ chains[c].pc = at
    /\ ChainFrame
    /\ CASE out = "reject" -> LocalThrow(op, out, c, MsgNetwork)
         [] ResponseFails(out) -> LocalThrow(op, out, c, msg)
         [] OTHER ->
              /\ chains' = [chains EXCEPT ![c].pc = to]
              /\ last' = Step(op, out, c, {}, {}, chains[c])
              /\ UNCHANGED <<error, isLoading, weather, displayLocation>>
              /\ LocalKept

\* an awaited res.json() settles; then the next request req is issued
LocalBody(op, c, at, body, to, req, name) ==
    /\ ~MicroPending
    /\ chains[c].kind = "local"
    /\ chains[c].pc = at
    /\ ChainFrame
    /\ CASE body = "reject" -> LocalThrow(op, body, c, MsgParse)
         [] OTHER ->
              /\ displayLocation' =
                     IF name THEN Set(displayLocation, c) ELSE displayLocation
              /\ chains' = [chains EXCEPT ![c].pc = to]
              /\ last' = Step(op, body, c,
                              IF name THEN {"displayLocation"} ELSE {},
                              {req}, chains[c])
              /\ UNCHANGED <<error, isLoading, weather>>
              /\ LocalKept

TimezoneResponse(c, out) ==
    LocalResponse("TimezoneResponse", c, "tzFetch", out, MsgTimezoneFailed, "tzJson")

TimezoneBody(c, body) ==
    LocalBody("TimezoneBody", c, "tzJson", body, "nameFetch", "name", FALSE)

NameResponse(c, out) ==
    LocalResponse("NameResponse", c, "nameFetch", out, MsgNameFailed, "nameJson")

\* setLocation(`${town ?? county} ${flag}`), then the forecast fetch
NameBody(c, body) ==
    LocalBody("NameBody", c, "nameJson", body, "wFetch", "forecast", TRUE)

LocalWeatherResponse(c, out) ==
    LocalResponse("LocalWeatherResponse", c, "wFetch", out, MsgWeatherFailed, "wJson")

\* setWeather(weatherData.daily); finally setIsLoading(false)
LocalWeatherBody(c, body) ==
    /\ ~MicroPending
    /\ chains[c].kind = "local"
    /\ chains[c].pc = "wJson"
    /\ ChainFrame
    /\ CASE body = "reject" -> LocalThrow("LocalWeatherBody", body, c, MsgParse)
         [] OTHER ->
              /\ weather' = Set(weather, c)
              /\ UNCHANGED <<error, isLoading, displayLocation>>
              /\ chains' = KillLocal([chains EXCEPT ![c] = NoChain],
                     LWVis(version, mounted', isLoading', error', weather'))
              /\ last' = Step("LocalWeatherBody", body, c,
                              {"weather", "lwIsLoading"}, {}, chains[c])
              /\ LocalState(lwIsLoading /\ ~chains[c].alive, geoIsLoading,
                            geoPending, position)

FetchOutcomes == {"ok", "notOk", "reject"}
GeoBodies == {"results", "absent", "empty", "reject"}
JsonOutcomes == {"ok", "reject"}

Next ==
    \/ Mount
    \/ RestoreCommit
    \/ \E q \in Queries : SetSearch(q)
    \/ Unmount
    \/ \E c \in ChainIds : AbortDelivered(c)
    \/ \E c \in ChainIds, out \in FetchOutcomes : GeoResponse(c, out)
    \/ \E c \in ChainIds, body \in GeoBodies : GeoBody(c, body)
    \/ \E c \in ChainIds, out \in FetchOutcomes : WeatherResponse(c, out)
    \/ \E c \in ChainIds, body \in JsonOutcomes : WeatherBody(c, body)
    \/ ClickLocation
    \/ \E la \in Coords, ln \in Coords : PositionSuccess(la, ln)
    \/ PositionError
    \/ \E c \in ChainIds, out \in FetchOutcomes : TimezoneResponse(c, out)
    \/ \E c \in ChainIds, body \in JsonOutcomes : TimezoneBody(c, body)
    \/ \E c \in ChainIds, out \in FetchOutcomes : NameResponse(c, out)
    \/ \E c \in ChainIds, body \in JsonOutcomes : NameBody(c, body)
    \/ \E c \in ChainIds, out \in FetchOutcomes : LocalWeatherResponse(c, out)
    \/ \E c \in ChainIds, body \in JsonOutcomes : LocalWeatherBody(c, body)

Spec == Init /\ [][Next]_vars

\* the next continuation of chain c: its pending request or body read settles
ChainStep(c) ==
    \/ AbortDelivered(c)
    \/ \E out \in FetchOutcomes : GeoResponse(c, out)
    \/ \E body \in GeoBodies : GeoBody(c, body)
    \/ \E out \in FetchOutcomes : WeatherResponse(c, out)
    \/ \E body \in JsonOutcomes : WeatherBody(c, body)
    \/ \E out \in FetchOutcomes : TimezoneResponse(c, out)
    \/ \E body \in JsonOutcomes : TimezoneBody(c, body)
    \/ \E out \in FetchOutcomes : NameResponse(c, out)
    \/ \E body \in JsonOutcomes : NameBody(c, body)
    \/ \E out \in FetchOutcomes : LocalWeatherResponse(c, out)
    \/ \E body \in JsonOutcomes : LocalWeatherBody(c, body)

\* every outstanding request eventually resolves, rejects or is aborted, and
\* the event loop runs the continuation; the user is under no obligation
LiveSpec == Spec /\ \A c \in ChainIds : WF_vars(ChainStep(c))

----------------------------------------------------------------------------
(* Properties *)

EffectOps == {"Mount", "RestoreCommit", "SetSearch"}
Shared == {"error", "isLoading", "weather", "displayLocation"}
GeoAwaits == {"geoFetch", "geoJson"}

\* C1: a text-search chain that is no longer the chain of the latest query
\* change calls no setter of the shared view state (error, isLoading, weather,
\* displayLocation).
C1_NoStaleWrite ==
    (mounted /\ last.chain.kind = "search" /\ last.by # cleanup)
        => last.fields \cap Shared = {}

\* C2: once a query change to a string of trimmed length < 2 has been handled
\* (effect run, pending abort continuation delivered), no chain was started
\* for it, the error is cleared, no forecast is held and nothing is loading.
C2_ShortQueryIdle ==
    (mounted /\ pc = "running" /\ ~MicroPending /\ IsShortTrimmed(search)
        /\ last.op \in EffectOps \cup {"AbortDelivered"})
        => (cleanup = 0 /\ last.issued = {} /\ error = "" /\ weather = 0
            /\ ~isLoading)

\* C3: a step of a text-search chain whose controllers were aborted (by a
\* query change or by unmount) never calls setError, wherever the chain was
\* suspended when it was cancelled.
C3_CancelNeverSetsError ==
    last.chain.cancelled => "error" \notin last.fields

\* a chain cancelled between the geocoding response and the forecast request
\* has run its catch/finally
C3_Witness ==
    /\ last.op = "AbortDelivered"
    /\ last.chain.cancelled
    /\ last.chain.pc = "geoJson"

\* C4: a current-location chain that was in flight when a valid search text
\* was typed never afterwards writes displayLocation, weather or error.
C4_NoCrossContamination ==
    (mounted /\ last.chain.kind = "local" /\ last.chain.overtaken)
        => last.fields \cap {"displayLocation", "weather", "error"} = {}

\* C5: a geocoding body with no results (absent or an empty list) ends the
\* chain with the error "Location not found", issues no forecast request and
\* shows no forecast.
C5_ZeroResultsNotFound ==
    (mounted /\ last.op = "GeoBody" /\ last.in \in {"absent", "empty"})
        => (/\ error = MsgNotFound
            /\ last.issued = {}
            /\ chains[last.by] = NoChain
            /\ ~WeatherListVisible)

\* C6: with a stored query of length >= 2, the first commit queues exactly
\* that value and starts no chain, and the commit that renders it makes it
\* the search value, starts exactly one chain (one geocoding request) and
\* leaves the stored value equal to it.
C6_RestoreOnce ==
    [][/\ (pc = "initial" /\ Len(storage) >= 2)
            => (pc' = "restoring" /\ restored' = storage /\ nChains' = 0)
       /\ (pc = "restoring" /\ Len(restored) >= 2)
            => (/\ pc' = "running"
                /\ search' = restored
                /\ storage' = restored
                /\ nChains' = 1
                /\ cleanup' = 1
                /\ last'.issued = {"geo"})]_vars

\* startup has settled on a restored query of length >= 2
C6_Witness ==
    /\ last.op = "RestoreCommit"
    /\ pc = "running"
    /\ Len(search) >= 2
    /\ nChains = 1

\* C7: after every query change the stored value equals the query, and it
\* was written before the chain's first request was issued.
C7_PersistFirst ==
    (mounted /\ last.op \in {"RestoreCommit", "SetSearch"})
        => (storage = search /\ last.chain.persistedAtFetch)

\* C8: a text-search chain issues its forecast request only in the step that
\* follows a geocoding response with success status and a body with a result;
\* the start of a chain issues the geocoding request alone; a step in which
\* geocoding fails or is cancelled ends the chain and issues nothing.
C8_ForecastAfterGeo ==
    /\ (last.chain.kind = "search" /\ "forecast" \in last.issued)
        => (/\ last.op = "GeoBody"
            /\ last.in = "results"
            /\ last.chain.geoStatus = "ok")
    /\ (last.op \in EffectOps) => last.issued \subseteq {"geo"}
    /\ (last.chain.kind = "search"
        /\ \/ (last.op = "GeoResponse" /\ last.in # "ok")
           \/ (last.op = "GeoBody" /\ last.in # "results")
           \/ (last.op = "AbortDelivered" /\ last.chain.pc \in GeoAwaits))
        => (last.issued = {} /\ chains[last.by] = NoChain)

\* a forecast request was issued by a text-search chain
C8_Witness ==
    /\ last.chain.kind = "search"
    /\ "forecast" \in last.issued

\* C9: every text-search chain other than the one of the latest effect run
\* has both of its signals aborted (after a valid query change, a too short
\* one, and unmount), and they were aborted before the new chain issued its
\* first request.
C9_BothSignalsRaised ==
    /\ \A c \in SearchChains(chains) :
           c # cleanup => (chains[c].geoAborted /\ chains[c].weatherAborted)
    /\ \A c \in SearchChains(chains) : chains[c].prevAborted

\* a new chain has started while the superseded one, suspended at its
\* forecast request, has not yet run its continuation
C9_Witness ==
    /\ last.op = "SetSearch"
    /\ last.in = "valid"
    /\ \E c \in SearchChains(chains) : c # cleanup /\ chains[c].pc = "wFetch"

\* C10: the forecast list is never rendered together with the error message.
C10_NoForecastWithError == ~(ErrorVisible /\ WeatherListVisible)

\* an error is set while an earlier chain's forecast is still held
C10_Witness == mounted /\ error # "" /\ weather # 0 /\ ~isLoading

BoolToNat(b) == IF b THEN 1 ELSE 0

\* C11: while the first version of App (the one that renders the
\* current-location button) is mounted, exactly one of Loader, ErrorMessage,
\* WeatherList and LocalWeather is rendered.
C11_ExactlyOneView ==
    (mounted /\ version = 1)
        => BoolToNat(LoaderVisible) + BoolToNat(ErrorVisible)
           + BoolToNat(WeatherListVisible) + BoolToNat(LocalWeatherVisible) = 1

\* the loading flag, an error and a forecast are all set at once
C11_Witness ==
    mounted /\ version = 1 /\ isLoading /\ error # "" /\ weather # 0

\* C12: while the error of a failed chain is shown, no request is issued
\* until the search text changes or the current-location button is clicked
\* again (the click's position report is the step that starts the chain).
C12_NoRequestAfterError ==
    [][(mounted /\ error # "" /\ last'.issued # {})
          => last'.op \in {"SetSearch", "PositionSuccess"}]_vars

\* C13: the current-location chain issues the timezone request first, the
\* place-name request only after the timezone body, and the forecast request
\* only after the place-name body; a non-success status of either lookup ends
\* the chain with that lookup's message, the display name unwritten by the
\* chain and no further request.
C13_LookupsBeforeForecast ==
    /\ ("tz" \in last.issued) => last.op = "PositionSuccess"
    /\ ("name" \in last.issued)
          => (last.op = "TimezoneBody" /\ last.chain.pc = "tzJson")
    /\ (last.chain.kind = "local" /\ "forecast" \in last.issued)
          => (last.op = "NameBody" /\ last.chain.pc = "nameJson")
    /\ (last.op \in {"TimezoneResponse", "NameResponse"} /\ last.in = "notOk")
          => /\ chains[last.by] = NoChain
             /\ last.issued = {}
             /\ "displayLocation" \notin last.fields
             /\ mounted
                  => /\ error = IF last.op = "TimezoneResponse"
                                THEN MsgTimezoneFailed ELSE MsgNameFailed
                     /\ ErrorVisible
                     /\ displayLocation # last.by

\* the place-name lookup has just answered with a non-success status
C13_Witness ==
    mounted /\ last.op = "NameResponse" /\ last.in = "notOk"

\* C14: after the browser refused or failed the position request of a click,
\* the view shows an error message.
C14_PositionFailureSurfaced ==
    (mounted /\ last.op = "PositionError") => ErrorVisible

\* C15: while the text-search chain started by the latest valid query is in
\* flight, the loading flag is true and the Loader is rendered.
C15_LoadingUntilTerminal ==
    (/\ mounted
     /\ cleanup # 0
     /\ chains[cleanup].kind = "search"
     /\ ~chains[cleanup].cancelled)
        => (isLoading /\ LoaderVisible)

\* C16: whenever WeatherList is rendered, the display name and the forecast
\* it shows were written by the same chain.
C16_NameAndForecastSameChain ==
    WeatherListVisible => displayLocation = weather

\* C17: a step of a text-search chain whose cleanup has run issues no
\* request; a chain cancelled while it awaits the geocoding body never issues
\* its forecast request.
C17_CancelledIssuesNothing ==
    last.chain.cancelled => (last.issued = {} /\ chains[last.by] = NoChain)

\* a chain cancelled between the geocoding response and the forecast request
\* has just ended
C17_Witness ==
    /\ last.op = "AbortDelivered"
    /\ last.chain.cancelled
    /\ last.chain.geoStatus = "ok"
    /\ last.chain.pc = "geoJson"
    /\ last.chain.weatherAborted
    /\ last.issued = {}

\* no text-search chain is in flight and the flag is down
Settled == ~isLoading /\ SearchChains(chains) = {}

\* the view for the last search text: idle for a short text, else the error
\* or the forecast; where no current-location flow exists (second version
\* of App) the forecast is the one of the last chain started
FinalView ==
    \/ ErrorVisible
    \/ WeatherListVisible /\ (version = 2 => (weather = cleanup /\ ~IsShort(search)))
    \/ ~ErrorVisible /\ ~WeatherListVisible /\ ~LoaderVisible /\ IsShort(search)

C19_FalsyPositionIsNoOp ==
    [][(/\ last'.op = "PositionSuccess"
        /\ (position'[1] \in {0, Undefined} \/ position'[2] \in {0, Undefined}))
          => /\ last'.issued = {}
             /\ last'.by = 0
             /\ UNCHANGED <<error, displayLocation, weather, isLoading,
                            lwIsLoading, chains, nChains>>]_vars

\* the position (0, 1) has just been reported and nothing was started
C19_Witness ==
    /\ last.op = "PositionSuccess"
    /\ last.in = "skip"
    /\ position = <<0, 1>>
    /\ LocalWeatherVisible
    /\ ~lwIsLoading
    /\ LocalChains(chains) = {}

LocalOps ==
    {"ClickLocation", "PositionSuccess", "PositionError", "TimezoneResponse",
     "TimezoneBody", "NameResponse", "NameBody", "LocalWeatherResponse",
     "LocalWeatherBody"}

\* C20: while a position request or a current-location chain is pending the
\* rendered button is disabled, at most one current-location chain is in
\* flight, and no step of the current-location flow writes App's isLoading.
C20_OneLocalFlowAtATime ==
    /\ (LocalWeatherVisible /\ (geoPending \/ LocalChains(chains) # {}))
          => (lwIsLoading \/ geoIsLoading)
    /\ Cardinality(LocalChains(chains)) <= 1
    /\ (last.op \in LocalOps) => "isLoading" \notin last.fields

====
